---- MODULE Spec2Model ----
(***************************************************************************)
(* Decision engine of the MT5 trading bot.                                 *)
(*                                                                         *)
(*   TradingBot._make_trading_decision  (main.py)   the rule evaluator     *)
(*   AITrader.analyze_market  (ai_engine/openai_trader.py)  the external   *)
(*       reasoning path: retry loop, pydantic TradeDecision validators,    *)
(*       _validate_decision and the _safe_decision fallback                *)
(*                                                                         *)
(* Units.  Prices, indicator levels and ATR are integers counted in ticks  *)
(* (one tick = 0.00001, the 5th decimal that TradeDecision rounds to).     *)
(* Levels as the provider sends them are counted in sub-ticks (SubTick to  *)
(* a tick) so that round(v, 5) is a real conversion.  Confidence is in     *)
(* percent (0.85 = 85); the provider's raw confidence is in per-mille so   *)
(* that round(v, 2) is a real conversion.  ATR takes even tick values, so  *)
(* risk_multiplier * atr = 1.5 * atr is an exact number of ticks.          *)
(***************************************************************************)
EXTENDS Integers, FiniteSets, Sequences, TLC

VARIABLES
    call,       \* the entry point this behaviour invokes
    snapshot,   \* the DataFrame handed to _make_trading_decision (its last row)
    pc,         \* position of the rule evaluator call: "start" | "returned"
    result,     \* outcome of _make_trading_decision: raised exception or decision
    data,       \* the dict handed to AITrader.analyze_market
    aiPc,       \* position inside analyze_market
    attempt,    \* loop variable of `for attempt in range(self.max_retries)`
    response,   \* the provider's response of the current attempt
    apiCalls,   \* number of openai.chat.completions.create calls made
    sleeps,     \* number of time.sleep(self.retry_delay) calls made
    failures,   \* number of attempts that ended in an except clause
    aiResult,   \* what analyze_market returned
    trader,     \* the fields of the AITrader object
    symIdx,     \* index in Settings.SYMBOLS of the symbol being processed
    cyPc,       \* position inside _process_trading_cycle
    fetched,    \* what fetch_historical_data returned for the symbol
    existingTrade,  \* ticket get_open_trade reported for the symbol, 0 for {}
    invoked,    \* operations invoked for the symbol after the decision
    requests,   \* requests handed to mt5.order_send for the symbol
    orderResult,    \* what execute_order returned for the symbol
    broker,     \* what the terminal answered during execute_order
    visited,    \* symbols the cycle has started to process, in order
    faults      \* symbols of the cycle cut short by None or an exception

vars == <<call, snapshot, pc, result, data, aiPc, attempt, response,
          apiCalls, sleeps, failures, aiResult, trader, symIdx, cyPc,
          fetched, existingTrade, invoked, requests, orderResult, broker,
          visited, faults>>

cycleVars ==
    <<symIdx, cyPc, fetched, existingTrade, invoked, requests, orderResult,
      broker, visited, faults>>

ruleVars == <<snapshot, pc, result>>

aiVars ==
    <<data, aiPc, attempt, response, apiCalls, sleeps, failures, aiResult,
      trader>>

(***************************************************************************)
(* Program constants                                                       *)
(***************************************************************************)
MinBars == 50

AdxThreshold == 25

RsiMid == 50

RsiOversold == 30

RsiOverbought == 70

RiskMultiplierNum == 3

RiskMultiplierDen == 2

DATA_BARS == 500

(***************************************************************************)
(* Bounds of the model                                                     *)
(***************************************************************************)
MaxATRSteps == 4

BasePrice == 10

(***************************************************************************)
(* Decisions                                                               *)
(***************************************************************************)
Decision(a, sl, tp, c, r) ==
    [action |-> a, stop_loss |-> sl, take_profit |-> tp, confidence |-> c,
     reasoning |-> r]

NoDecision == Decision("none", 0, 0, 0, "")

Returned(d) == [exc |-> "none", decision |-> d]

Raised(e) == [exc |-> e, decision |-> NoDecision]

(***************************************************************************)
(* Snapshots: the columns DataFetcher._process_rates produces and the      *)
(* values of the last row.                                                 *)
(***************************************************************************)
IndicatorColumns ==
    {"ema20", "ema50", "rsi", "atr", "adx", "bollinger_upper",
     "bollinger_lower", "close"}

BarCounts == {0, MinBars - 1, MinBars, DATA_BARS}

EmaValues == {BasePrice, BasePrice + 1}

AdxValues == {AdxThreshold, AdxThreshold + 1}

RsiValues ==
    {RsiOversold - 1, RsiOversold, RsiMid - 1, RsiMid, RsiMid + 1,
     RsiOverbought, RsiOverbought + 1}

\* ATR is an average of true ranges: never negative, 0 on a flat market.
AtrValues == {2 * k : k \in 0..MaxATRSteps}

CloseValues == {BasePrice, BasePrice + 1}

BollLowerValues == {BasePrice - 1, BasePrice}

BollUpperValues == {BasePrice + 1, BasePrice + 2}

\* Mean of the whole 'atr' column of the frame.  _make_trading_decision
\* never reads it: it takes the mean of the last row's scalar.
AtrColumnMeans == {2}

WellFormedSnapshots ==
    [bars : {MinBars - 1, MinBars}, missing : {{}}, nonNumeric : {{}},
     ema20 : EmaValues, ema50 : EmaValues, rsi : RsiValues, atr : AtrValues,
     adx : AdxValues, bollinger_upper : BollUpperValues,
     bollinger_lower : BollLowerValues, close : CloseValues,
     atr_column_mean : AtrColumnMeans]

\* A snapshot that lacks one indicator column, or whose atr is not a number.
MalformedSnapshots ==
    { [bars |-> b, missing |-> m, nonNumeric |-> n,
       ema20 |-> BasePrice + 1, ema50 |-> BasePrice, rsi |-> RsiMid + 1,
       atr |-> 2, adx |-> AdxThreshold + 1,
       bollinger_upper |-> BasePrice + 2, bollinger_lower |-> BasePrice - 1,
       close |-> BasePrice, atr_column_mean |-> 2] :
      b \in BarCounts,
      m \in {{c} : c \in IndicatorColumns} \cup {{}},
      n \in {{}, {"atr"}} }

Snapshots == WellFormedSnapshots \cup MalformedSnapshots

\* The value of `snapshot` while no frame is at hand.
IdleSnapshot ==
    [bars |-> 0, missing |-> {}, nonNumeric |-> {}, ema20 |-> BasePrice,
     ema50 |-> BasePrice, rsi |-> RsiMid, atr |-> 0, adx |-> AdxThreshold,
     bollinger_upper |-> BasePrice + 1, bollinger_lower |-> BasePrice - 1,
     close |-> BasePrice, atr_column_mean |-> 2]

(***************************************************************************)
(* TradingBot._make_trading_decision                                       *)
(***************************************************************************)
\* Variant: the stop distance is 2 * atr.
RiskDistance_double(atr) == 2 * atr

\* risk_multiplier * atr, with risk_multiplier = 1.5
RiskDistance(atr) == (RiskMultiplierNum * atr) \div RiskMultiplierDen

TrendBuy(s) == s.ema20 > s.ema50 /\ s.adx > AdxThreshold /\ s.rsi > RsiMid

TrendSell(s) == s.ema20 < s.ema50 /\ s.adx > AdxThreshold /\ s.rsi < RsiMid

MeanReversionBuy(s) == s.close <= s.bollinger_lower /\ s.rsi < RsiOversold

MeanReversionSell(s) == s.close >= s.bollinger_upper /\ s.rsi > RsiOverbought

\* Variant: the mean is taken over the 'atr' column of the frame.
AtrMean_of_column(s) == s.atr_column_mean

\* atr is the scalar of the last row, so atr.mean() is atr itself.
AtrMean(s) == s.atr

\* atr > atr.mean() * 1.5
Breakout(s) == RiskMultiplierDen * s.atr > RiskMultiplierNum * AtrMean(s)

TrendFollowing(s) ==
    IF TrendBuy(s)
    THEN Decision("buy", s.close - RiskDistance(s.atr),
                  s.close + RiskDistance(s.atr), 85,
                  "Strong bullish trend with EMA crossover & ADX > 25")
    ELSE Decision("sell", s.close + RiskDistance(s.atr),
                  s.close - RiskDistance(s.atr), 85,
                  "Strong bearish trend with EMA crossover & ADX > 25")

MeanReversion(s) ==
    IF MeanReversionBuy(s)
    THEN Decision("buy", s.close - RiskDistance(s.atr),
                  s.close + RiskDistance(s.atr), 75,
                  "Price at lower Bollinger Band & RSI < 30 (Oversold)")
    ELSE Decision("sell", s.close + RiskDistance(s.atr),
                  s.close - RiskDistance(s.atr), 75,
                  "Price at upper Bollinger Band & RSI > 70 (Overbought)")

\* Both directions of the breakout branch carry the levels computed at
\* lines 111-112 (stop below, target above the close).
BreakoutDecision(s) ==
    Decision(IF s.rsi > RsiMid THEN "buy" ELSE "sell",
             s.close - RiskDistance(s.atr), s.close + RiskDistance(s.atr), 80,
             "High ATR breakout detected")

\* Variant: the no-signal hold carries confidence 0.
NoSignal_zero_confidence == Decision("hold", 0, 0, 0, "No clear signal")

NoSignal == Decision("hold", 0, 0, 50, "No clear signal")

InsufficientData == Decision("hold", 0, 0, 0, "Insufficient data")

\* Variant: a snapshot without signal is answered like one without data.
EvaluateStrategies_hold_as_insufficient(s) ==
    IF TrendBuy(s) \/ TrendSell(s) THEN TrendFollowing(s)
    ELSE IF MeanReversionBuy(s) \/ MeanReversionSell(s) THEN MeanReversion(s)
    ELSE IF Breakout(s) THEN BreakoutDecision(s)
    ELSE InsufficientData

\* Variant: mean-reversion is evaluated before trend-following.
EvaluateStrategies_mean_reversion_first(s) ==
    IF MeanReversionBuy(s) \/ MeanReversionSell(s) THEN MeanReversion(s)
    ELSE IF TrendBuy(s) \/ TrendSell(s) THEN TrendFollowing(s)
    ELSE IF Breakout(s) THEN BreakoutDecision(s)
    ELSE NoSignal

\* Lines 114-166: the strategies in their fixed order.
EvaluateStrategies(s) ==
    IF TrendBuy(s) \/ TrendSell(s) THEN TrendFollowing(s)
    ELSE IF MeanReversionBuy(s) \/ MeanReversionSell(s) THEN MeanReversion(s)
    ELSE IF Breakout(s) THEN BreakoutDecision(s)
    ELSE NoSignal

\* Variant: the last row is read before the bar count is looked at.
_make_trading_decision_reads_first(s) ==
    IF s.missing \cap IndicatorColumns # {} THEN Raised("KeyError")
    ELSE IF s.nonNumeric \cap {"atr", "close"} # {} THEN Raised("TypeError")
    ELSE IF s.bars < MinBars THEN Returned(InsufficientData)
    ELSE Returned(EvaluateStrategies(s))

\* Lines 94-112: the bar-count guard, the eight reads of the last row
\* (KeyError on an absent column) and the arithmetic on price and atr
\* (TypeError on a value that is not a number); no except clause.
_make_trading_decision(s) ==
    IF s.bars < MinBars THEN Returned(InsufficientData)
    ELSE IF s.missing \cap IndicatorColumns # {} THEN Raised("KeyError")
    ELSE IF s.nonNumeric \cap {"atr", "close"} # {} THEN Raised("TypeError")
    ELSE Returned(EvaluateStrategies(s))

(***************************************************************************)
(* The call of the rule evaluator (main.py line 75)                        *)
(***************************************************************************)
MakeTradingDecision ==
    /\ call = "make_trading_decision"
    /\ pc = "start"
    /\ result' = _make_trading_decision(snapshot)
    /\ pc' = "returned"
    /\ UNCHANGED <<call, snapshot>>
    /\ UNCHANGED aiVars
    /\ UNCHANGED cycleVars

(***************************************************************************)
(* AITrader: constants set in __init__                                     *)
(***************************************************************************)
max_retries == 3

retry_delay == 2

\* min_rr_ratio = 1.5 = MinRRNum / MinRRDen
MinRRNum == 3

MinRRDen == 2

\* Sub-ticks to a tick: the provider may send more than five decimals.
SubTick == 4

\* Per-mille to a percent: the provider may send more than two decimals.
PerMille == 10

MaxLevel == 5

\* AITrader.__init__: the fields every method reads through self.
AITraderFields ==
    [model |-> "gpt-3.5-turbo", max_retries |-> max_retries,
     retry_delay |-> retry_delay,
     min_rr_ratio |-> [num |-> MinRRNum, den |-> MinRRDen]]

(***************************************************************************)
(* Inputs of analyze_market                                                *)
(***************************************************************************)
AIClosePrices == {2, 3}

\* The market dict; data['close'] raises KeyError when the key is absent.
DataDicts ==
    {[hasClose |-> TRUE, close |-> p] : p \in AIClosePrices}
        \cup {[hasClose |-> FALSE, close |-> 0]}

\* Levels as sent, in sub-ticks.  Exact halves of a tick are left out: how
\* round() settles them depends on the binary value of the float.
RawLevels == {v \in -1..(SubTick * MaxLevel) : v % SubTick # SubTick \div 2}

RawConfidences == {-1, 0, 854, 1000, 1001}

\* What one call of the provider can come back with:
\*   api_error  openai.chat.completions.create raises
\*   bad_json   the content is not JSON
\*   bad_shape  JSON that lacks a field or holds a value of the wrong type
\*   json       JSON with the five fields
Responses ==
    [kind : {"json"}, action : {"buy", "sell", "hold", "close"},
     stop_loss : RawLevels, take_profit : RawLevels,
     confidence : RawConfidences]
    \cup [kind : {"api_error", "bad_json", "bad_shape"}, action : {"hold"},
          stop_loss : {0}, take_profit : {0}, confidence : {0}]

NoResponse ==
    [kind |-> "none", action |-> "hold", stop_loss |-> 0, take_profit |-> 0,
     confidence |-> 0]

(***************************************************************************)
(* TradeDecision (pydantic model) and its validators                       *)
(***************************************************************************)
\* round(v, ndigits) for a value counted in units of 1/unit of the target.
\* Not applied to exact halves.
RoundTo(v, unit) == (v + unit \div 2) \div unit

valid_action(v) == v \in {"buy", "sell", "hold"}

\* values.get('action', 'hold') != 'hold' and v <= 0  raises
valid_prices(v, action) == ~(action # "hold" /\ v <= 0)

valid_confidence(v) == 0 <= v /\ v <= 100 * PerMille

\* TradeDecision(**response_data).dict(): the validated, rounded fields.
TradeDecisionDict(r) ==
    Decision(r.action, RoundTo(r.stop_loss, SubTick),
             RoundTo(r.take_profit, SubTick), RoundTo(r.confidence, PerMille),
             "technical analysis")

\* A validator sees 'action' in values only when action itself was valid;
\* then the model is rejected anyway.
TradeDecisionValid(r) ==
    /\ valid_action(r.action)
    /\ valid_prices(r.stop_loss, r.action)
    /\ valid_prices(r.take_profit, r.action)
    /\ valid_confidence(r.confidence)

\* _get_ai_decision and _parse_response.  Whatever the raise at line 113
\* ends up raising, it is an Exception.
_parse_response(r) ==
    IF r.kind = "api_error" THEN Raised("APIError")
    ELSE IF r.kind = "bad_json" THEN Raised("ValueError")
    ELSE IF r.kind = "bad_shape" \/ ~TradeDecisionValid(r)
         THEN Raised("ValidationError")
    ELSE Returned(TradeDecisionDict(r))

Abs(x) == IF x < 0 THEN -x ELSE x

\* Variant: risk / reward compared with the minimum instead of reward / risk.
BelowMinRR_inverted(price, d) ==
    trader.min_rr_ratio.den * Abs(price - d.stop_loss)
        < trader.min_rr_ratio.num * Abs(d.take_profit - price)

\* reward / risk < self.min_rr_ratio  (risk > 0 once the ordering held)
BelowMinRR(price, d) ==
    trader.min_rr_ratio.den * Abs(d.take_profit - price)
        < trader.min_rr_ratio.num * Abs(price - d.stop_loss)

\* AITrader._validate_decision: TRUE when it returns, FALSE when it raises.
AITrader_validate_decision(price, d) ==
    IF d.action = "hold" THEN TRUE
    ELSE IF d.action = "buy"
            /\ ~(d.stop_loss < price /\ price < d.take_profit) THEN FALSE
    ELSE IF d.action = "sell"
            /\ ~(d.take_profit < price /\ price < d.stop_loss) THEN FALSE
    ELSE ~BelowMinRR(price, d)

\* Variant: the fallback reuses the neutral confidence of the no-signal hold.
_safe_decision_neutral ==
    Decision("hold", 0, 0, 50, "System error - conservative hold")

_safe_decision ==
    Decision("hold", 0, 0, 0, "System error - conservative hold")

\* The body of the try block, lines 48-50.
TryAttempt(dt, r) ==
    LET parsed == _parse_response(r) IN
    IF parsed.exc # "none" THEN parsed
    ELSE IF ~dt.hasClose THEN Raised("KeyError")
    ELSE IF ~AITrader_validate_decision(dt.close, parsed.decision)
         THEN Raised("ValueError")
    ELSE parsed

\* Variant: range(self.max_retries + 1).
MoreAttempts_off_by_one(n) == n <= trader.max_retries

\* range(self.max_retries)
MoreAttempts(n) == n < trader.max_retries

(***************************************************************************)
(* AITrader.analyze_market                                                 *)
(***************************************************************************)
\* Lines 47-55: one pass through the try block.
Attempt ==
    /\ call = "analyze_market"
    /\ aiPc = "attempt"
    /\ \E r \in Responses :
          LET out == TryAttempt(data, r) IN
          /\ response' = r
          /\ apiCalls' = apiCalls + 1
          /\ IF out.exc = "none"
             THEN /\ aiResult' = out
                  /\ aiPc' = "done"
                  /\ UNCHANGED failures
             ELSE /\ aiPc' = "sleep"
                  /\ failures' = failures + 1
                  /\ UNCHANGED aiResult
    /\ UNCHANGED <<call, data, attempt, sleeps, trader>>
    /\ UNCHANGED ruleVars
    /\ UNCHANGED cycleVars

\* Variant: exponential backoff kept in the object, self.retry_delay *= 2.
Sleep_backoff ==
    /\ call = "analyze_market"
    /\ aiPc = "sleep"
    /\ sleeps' = sleeps + 1
    /\ attempt' = attempt + 1
    /\ aiPc' = IF MoreAttempts(attempt + 1) THEN "attempt" ELSE "fallback"
    /\ response' = NoResponse
    /\ trader' = [trader EXCEPT !.retry_delay = 2 * @]
    /\ UNCHANGED <<call, data, apiCalls, failures, aiResult>>
    /\ UNCHANGED ruleVars
    /\ UNCHANGED cycleVars

\* Line 57, then the loop header; the failed response is dropped.
Sleep ==
    /\ call = "analyze_market"
    /\ aiPc = "sleep"
    /\ sleeps' = sleeps + 1
    /\ attempt' = attempt + 1
    /\ aiPc' = IF MoreAttempts(attempt + 1) THEN "attempt" ELSE "fallback"
    /\ response' = NoResponse
    /\ UNCHANGED <<call, data, apiCalls, failures, aiResult, trader>>
    /\ UNCHANGED ruleVars
    /\ UNCHANGED cycleVars

\* Line 59.
ReturnSafeDecision ==
    /\ call = "analyze_market"
    /\ aiPc = "fallback"
    /\ aiResult' = Returned(_safe_decision)
    /\ aiPc' = "done"
    /\ UNCHANGED <<call, data, attempt, response, apiCalls, sleeps, failures,
                   trader>>
    /\ UNCHANGED ruleVars
    /\ UNCHANGED cycleVars

(***************************************************************************)
(* OrderManager (trade_execution/order_manager.py)                         *)
(***************************************************************************)
\* Settings.SYMBOLS
SYMBOLS == <<"USDCAD", "EURUSD", "XAUUSD", "USDJPY">>

\* What the terminal answers while execute_order runs: mt5.symbol_info,
\* mt5.symbol_info_tick, and the result of mt5.order_send (NONE: no result
\* object at all).
BrokerAnswers ==
    [symbol_info : BOOLEAN, tick : BOOLEAN,
     retcode : {"DONE", "REJECTED", "NONE"}]

NoBrokerAnswer == [symbol_info |-> FALSE, tick |-> FALSE, retcode |-> "NONE"]

OrderResult(status, raised) == [status |-> status, raised |-> raised]

NoOrderResult == OrderResult("none", "none")

\* Outcome of a step of execute_order or adjust_trade: the requests sent,
\* the value returned, the exception that left the method.
Outcome(reqs, res) == [requests |-> reqs, result |-> res]

DealRequest(d) ==
    [action |-> "TRADE_ACTION_DEAL", sl |-> d.stop_loss, tp |-> d.take_profit]

ModifyRequest(ticket, d) ==
    [action |-> "TRADE_ACTION_MODIFY", sl |-> d.stop_loss,
     tp |-> d.take_profit]

\* Variant: only the symbol is validated, not the levels.
OrderManager_validate_decision_symbol_only(d, b) ==
    IF ~b.symbol_info THEN "ValueError" ELSE "none"

\* OrderManager._validate_decision: the exception it raises, or "none".
OrderManager_validate_decision(d, b) ==
    IF d.stop_loss <= 0 \/ d.take_profit <= 0 THEN "ValueError"
    ELSE IF ~b.symbol_info THEN "ValueError"
    ELSE "none"

\* OrderManager._get_price_info: the exception it raises, or "none".
_get_price_info(b) == IF ~b.tick THEN "ValueError" ELSE "none"

\* OrderManager.execute_order.  Everything after the hold test runs inside
\* try / except Exception; result.retcode on a missing result object is an
\* AttributeError like any other.
execute_order(d, b) ==
    IF d.action = "hold" THEN Outcome(<<>>, OrderResult("hold", "none"))
    ELSE IF OrderManager_validate_decision(d, b) # "none"
         THEN Outcome(<<>>, OrderResult("error", "none"))
    ELSE IF _get_price_info(b) # "none"
         THEN Outcome(<<>>, OrderResult("error", "none"))
    ELSE IF b.retcode = "DONE"
         THEN Outcome(<<DealRequest(d)>>, OrderResult("executed", "none"))
    ELSE Outcome(<<DealRequest(d)>>, OrderResult("error", "none"))

\* OrderManager.adjust_trade: no validation of the decision, no try.
\* stillOpen: mt5.positions_get(ticket=...) found the position.
adjust_trade(ticket, d, stillOpen, retcode) ==
    IF ticket = 0 THEN Outcome(<<>>, OrderResult("none", "none"))
    ELSE IF ~stillOpen THEN Outcome(<<>>, OrderResult("none", "none"))
    ELSE IF retcode = "NONE"
         THEN Outcome(<<ModifyRequest(ticket, d)>>,
                      OrderResult("none", "AttributeError"))
    ELSE Outcome(<<ModifyRequest(ticket, d)>>, OrderResult("none", "none"))

(***************************************************************************)
(* TradingBot._process_trading_cycle                                       *)
(***************************************************************************)
\* The frames the cycle is run on: every outcome of the rule evaluator
\* (hold, buy, sell, exception, too few bars) with every ATR.
CycleSnapshots ==
    {s \in Snapshots :
        /\ s.bars \in {MinBars - 1, MinBars}
        /\ s.nonNumeric = {}
        /\ s.missing \subseteq {"adx"}
        /\ s.adx = AdxThreshold + 1
        /\ s.rsi \in {RsiMid - 1, RsiMid, RsiMid + 1}
        /\ s.close = BasePrice
        /\ s.bollinger_lower = BasePrice - 1
        /\ s.bollinger_upper = BasePrice + 2}

\* Line 65: the for statement takes the next symbol, or the cycle ends.
\* What the previous symbol left behind is dropped.
LoopNext ==
    /\ call = "process_trading_cycle"
    /\ cyPc = "loop"
    /\ IF symIdx < Len(SYMBOLS)
       THEN /\ symIdx' = symIdx + 1
            /\ cyPc' = "fetch"
       ELSE /\ cyPc' = "done"
            /\ UNCHANGED symIdx
    /\ snapshot' = IdleSnapshot
    /\ result' = Returned(NoDecision)
    /\ fetched' = "pending"
    /\ existingTrade' = 0
    /\ invoked' = <<>>
    /\ requests' = <<>>
    /\ orderResult' = NoOrderResult
    /\ broker' = NoBrokerAnswer
    /\ UNCHANGED <<call, pc, visited, faults>>
    /\ UNCHANGED aiVars

\* Lines 67-72: fetch_historical_data returns a frame, or None when the
\* symbol is unavailable or its three attempts failed.
FetchHistoricalData ==
    /\ call = "process_trading_cycle"
    /\ cyPc = "fetch"
    /\ visited' = Append(visited, SYMBOLS[symIdx])
    /\ \/ /\ fetched' = "None"
          /\ cyPc' = "loop"
          /\ faults' = faults + 1
          /\ UNCHANGED snapshot
       \/ /\ fetched' = "frame"
          /\ snapshot' \in CycleSnapshots
          /\ cyPc' = "decide"
          /\ UNCHANGED faults
    /\ UNCHANGED <<call, pc, result, symIdx, existingTrade, invoked, requests,
                   orderResult, broker>>
    /\ UNCHANGED aiVars

\* Variant: the try statement encloses the loop, so an exception ends it.
CycleDecide_try_around_loop ==
    /\ call = "process_trading_cycle"
    /\ cyPc = "decide"
    /\ result' = _make_trading_decision(snapshot)
    /\ IF result'.exc # "none"
       THEN cyPc' = "done" /\ faults' = faults + 1
       ELSE cyPc' = "monitor" /\ UNCHANGED faults
    /\ UNCHANGED <<call, pc, snapshot, symIdx, fetched, existingTrade, invoked,
                   requests, orderResult, broker, visited>>
    /\ UNCHANGED aiVars

\* Line 75; an exception goes to the except clause of lines 88-89.
CycleDecide ==
    /\ call = "process_trading_cycle"
    /\ cyPc = "decide"
    /\ result' = _make_trading_decision(snapshot)
    /\ IF result'.exc # "none"
       THEN cyPc' = "loop" /\ faults' = faults + 1
       ELSE cyPc' = "monitor" /\ UNCHANGED faults
    /\ UNCHANGED <<call, pc, snapshot, symIdx, fetched, existingTrade, invoked,
                   requests, orderResult, broker, visited>>
    /\ UNCHANGED aiVars

\* Lines 78-79 and OrderManager.get_open_trade: the first position of the
\* symbol, or {} (ticket 0) when positions_get returns nothing.
GetOpenTrade ==
    /\ call = "process_trading_cycle"
    /\ cyPc = "monitor"
    /\ \E ticket \in {0, 1} :
          /\ existingTrade' = ticket
          /\ cyPc' = IF ticket # 0 THEN "adjust" ELSE "execute"
    /\ UNCHANGED <<call, pc, snapshot, result, symIdx, fetched, invoked,
                   requests, orderResult, broker, visited, faults>>
    /\ UNCHANGED aiVars

\* Variant: the continue of line 82 is missing.
AdjustTrade_falls_through ==
    /\ call = "process_trading_cycle"
    /\ cyPc = "adjust"
    /\ invoked' = Append(invoked, "adjust_trade")
    /\ \E stillOpen \in BOOLEAN, retcode \in {"DONE", "REJECTED", "NONE"} :
          LET out == adjust_trade(existingTrade, result.decision, stillOpen,
                                  retcode)
          IN  /\ requests' = requests \o out.requests
              /\ IF out.result.raised # "none"
                 THEN cyPc' = "loop" /\ faults' = faults + 1
                 ELSE cyPc' = "execute" /\ UNCHANGED faults
    /\ UNCHANGED <<call, pc, snapshot, result, symIdx, fetched, existingTrade,
                   orderResult, broker, visited>>
    /\ UNCHANGED aiVars

\* Lines 81-82: adjust_trade, then continue; an exception of adjust_trade
\* goes to the except clause.
AdjustTrade ==
    /\ call = "process_trading_cycle"
    /\ cyPc = "adjust"
    /\ invoked' = Append(invoked, "adjust_trade")
    /\ \E stillOpen \in BOOLEAN, retcode \in {"DONE", "REJECTED", "NONE"} :
          LET out == adjust_trade(existingTrade, result.decision, stillOpen,
                                  retcode)
          IN  /\ requests' = requests \o out.requests
              /\ IF out.result.raised # "none"
                 THEN faults' = faults + 1
                 ELSE UNCHANGED faults
    /\ cyPc' = "loop"
    /\ UNCHANGED <<call, pc, snapshot, result, symIdx, fetched, existingTrade,
                   orderResult, broker, visited>>
    /\ UNCHANGED aiVars

\* Line 85.
ExecuteOrder ==
    /\ call = "process_trading_cycle"
    /\ cyPc = "execute"
    /\ invoked' = Append(invoked, "execute_order")
    /\ \E b \in BrokerAnswers :
          LET out == execute_order(result.decision, b)
          IN  /\ broker' = b
              /\ requests' = requests \o out.requests
              /\ orderResult' = out.result
              /\ IF out.result.raised # "none"
                 THEN cyPc' = "loop" /\ faults' = faults + 1
                 ELSE cyPc' = "log" /\ UNCHANGED faults
    /\ UNCHANGED <<call, pc, snapshot, result, symIdx, fetched, existingTrade,
                   visited>>
    /\ UNCHANGED aiVars

\* Line 86: TradeLogger.log_trade catches its own errors.
LogTrade ==
    /\ call = "process_trading_cycle"
    /\ cyPc = "log"
    /\ invoked' = Append(invoked, "log_trade")
    /\ cyPc' = "loop"
    /\ UNCHANGED <<call, pc, snapshot, result, symIdx, fetched, existingTrade,
                   requests, orderResult, broker, visited, faults>>
    /\ UNCHANGED aiVars

(***************************************************************************)
(* Specification                                                           *)
(***************************************************************************)
RuleInit ==
    /\ call = "make_trading_decision"
    /\ snapshot \in Snapshots
    /\ pc = "start"
    /\ data = [hasClose |-> FALSE, close |-> 0]
    /\ aiPc = "idle"

AIInit ==
    /\ call = "analyze_market"
    /\ snapshot = IdleSnapshot
    /\ pc = "idle"
    /\ data \in DataDicts
    /\ aiPc = IF MoreAttempts(0) THEN "attempt" ELSE "fallback"

CycleInit ==
    /\ call = "process_trading_cycle"
    /\ snapshot = IdleSnapshot
    /\ pc = "idle"
    /\ data = [hasClose |-> FALSE, close |-> 0]
    /\ aiPc = "idle"

Init ==
    /\ trader = AITraderFields
    /\ RuleInit \/ AIInit \/ CycleInit
    /\ symIdx = 0
    /\ cyPc = IF call = "process_trading_cycle" THEN "loop" ELSE "idle"
    /\ fetched = "pending"
    /\ existingTrade = 0
    /\ invoked = <<>>
    /\ requests = <<>>
    /\ orderResult = NoOrderResult
    /\ broker = NoBrokerAnswer
    /\ visited = <<>>
    /\ faults = 0
    /\ result = Returned(NoDecision)
    /\ attempt = 0
    /\ response = NoResponse
    /\ apiCalls = 0
    /\ sleeps = 0
    /\ failures = 0
    /\ aiResult = Returned(NoDecision)

Next ==
    \/ MakeTradingDecision
    \/ Attempt
    \/ Sleep
    \/ ReturnSafeDecision
    \/ LoopNext
    \/ FetchHistoricalData
    \/ CycleDecide
    \/ GetOpenTrade
    \/ AdjustTrade
    \/ ExecuteOrder
    \/ LogTrade

Spec == Init /\ [][Next]_vars

\* analyze_market is sequential code: a started call keeps running.
LiveSpec ==
    Spec /\ WF_vars(Attempt) /\ WF_vars(Sleep) /\ WF_vars(ReturnSafeDecision)

(***************************************************************************)
(* Helpers of the properties                                               *)
(***************************************************************************)
Directional(d) == d.action \in {"buy", "sell"}

\* buy: stop_loss < price < take_profit;  sell: take_profit < price < stop_loss
OrderedAround(price, d) ==
    /\ d.action = "buy" => d.stop_loss < price /\ price < d.take_profit
    /\ d.action = "sell" => d.take_profit < price /\ price < d.stop_loss

WellFormedDecision(d) ==
    /\ d.action \in {"buy", "sell", "hold"}
    /\ d.confidence \in 0..100

RuleReturned == pc = "returned" /\ result.exc = "none"

RuleEvaluated ==
    /\ RuleReturned
    /\ snapshot.bars >= 50
    /\ snapshot.missing = {}
    /\ snapshot.nonNumeric = {}

AIReturned == aiPc = "done"

\* analyze_market returned the decision of the last provider response
AIReturnedProviderDecision == aiPc = "done" /\ response.kind = "json"

(***************************************************************************)
(* C1.  Every buy or sell returned by _make_trading_decision, whichever    *)
(* strategy produced it, has its levels on the right sides of the          *)
(* snapshot's close: buy stop_loss < close < take_profit, sell             *)
(* take_profit < close < stop_loss.                                        *)
(***************************************************************************)
RuleDecisionOrdered ==
    (RuleReturned /\ Directional(result.decision))
        => OrderedAround(snapshot.close, result.decision)

(***************************************************************************)
(* C2.  Neither entry point of the decision engine ever ends in an         *)
(* exception: each call returns a well-formed decision, whatever the       *)
(* input (absent columns, values that are not numbers, provider errors).   *)
(***************************************************************************)
EngineNeverRaises ==
    /\ pc = "returned"
          => result.exc = "none" /\ WellFormedDecision(result.decision)
    /\ aiPc = "done"
          => aiResult.exc = "none" /\ WellFormedDecision(aiResult.decision)

(***************************************************************************)
(* C3.  When every one of the max_retries attempts failed, analyze_market  *)
(* returns exactly the canonical safe decision: hold, stop_loss 0,         *)
(* take_profit 0, confidence 0, 'System error - conservative hold'.        *)
(***************************************************************************)
FallbackIsCanonicalSafeDecision ==
    (aiPc = "done" /\ failures >= 3)
        => aiResult =
             [exc |-> "none",
              decision |->
                [action |-> "hold", stop_loss |-> 0, take_profit |-> 0,
                 confidence |-> 0,
                 reasoning |-> "System error - conservative hold"]]

AllAttemptsFailed == aiPc = "done" /\ failures = 3 /\ apiCalls = 3

(***************************************************************************)
(* C4.  Every decision analyze_market returns has an action among buy,     *)
(* sell, hold, and a buy or sell has positive stop_loss and take_profit,   *)
(* ordered around the close of the market dict.                            *)
(***************************************************************************)
ProviderDecisionLevelsValid ==
    AIReturned =>
        /\ aiResult.decision.action \in {"buy", "sell", "hold"}
        /\ Directional(aiResult.decision) =>
              /\ aiResult.decision.stop_loss > 0
              /\ aiResult.decision.take_profit > 0
              /\ data.hasClose
              /\ OrderedAround(data.close, aiResult.decision)

(***************************************************************************)
(* C5.  Every buy or sell analyze_market returns has reward / risk =       *)
(* |take_profit - close| / |stop_loss - close| >= 1.5, and a provider      *)
(* decision below 1.5 ends its attempt in an except clause.                *)
(***************************************************************************)
ProviderDecisionMeetsMinRR ==
    /\ (AIReturned /\ Directional(aiResult.decision))
          => 2 * Abs(aiResult.decision.take_profit - data.close)
                >= 3 * Abs(aiResult.decision.stop_loss - data.close)
    /\ (/\ response.kind = "json"
        /\ data.hasClose
        /\ response.action \in {"buy", "sell"}
        /\ 2 * Abs(RoundTo(response.take_profit, SubTick) - data.close)
              < 3 * Abs(RoundTo(response.stop_loss, SubTick) - data.close))
          => aiPc = "sleep" /\ failures >= 1

DirectionalProviderDecisionReturned ==
    AIReturnedProviderDecision /\ Directional(aiResult.decision)

(***************************************************************************)
(* C6, as the specification states it.  Every hold the engine emits, on    *)
(* the rule path, the provider path or the fallback, has stop_loss =       *)
(* take_profit = 0 and confidence 0.                                       *)
(***************************************************************************)
EveryHoldIsZero ==
    /\ (RuleReturned /\ result.decision.action = "hold")
          => /\ result.decision.stop_loss = 0
             /\ result.decision.take_profit = 0
             /\ result.decision.confidence = 0
    /\ (AIReturned /\ aiResult.decision.action = "hold")
          => /\ aiResult.decision.stop_loss = 0
             /\ aiResult.decision.take_profit = 0
             /\ aiResult.decision.confidence = 0

(***************************************************************************)
(* C6, amended.  A hold of the rule evaluator or of the fallback has       *)
(* stop_loss = take_profit = 0; its confidence is 0 for the                *)
(* insufficient-data hold and the fallback hold and 0.5 for the no-signal  *)
(* hold.  A hold the provider sent is returned with the provider's own     *)
(* levels, rounded to 5 decimals, and its own confidence in [0, 1],        *)
(* rounded to 2 decimals.                                                  *)
(***************************************************************************)
HoldLevelsByPath ==
    /\ (RuleReturned /\ result.decision.action = "hold")
          => /\ result.decision.stop_loss = 0
             /\ result.decision.take_profit = 0
             /\ result.decision.confidence =
                   (IF snapshot.bars < 50 THEN 0 ELSE 50)
    /\ (AIReturned /\ response.kind = "none"
          /\ aiResult.decision.action = "hold")
          => /\ aiResult.decision.stop_loss = 0
             /\ aiResult.decision.take_profit = 0
             /\ aiResult.decision.confidence = 0
    /\ (AIReturnedProviderDecision /\ aiResult.decision.action = "hold")
          => /\ response.action = "hold"
             /\ 2 * Abs(SubTick * aiResult.decision.stop_loss
                          - response.stop_loss) < SubTick
             /\ 2 * Abs(SubTick * aiResult.decision.take_profit
                          - response.take_profit) < SubTick
             /\ 2 * Abs(PerMille * aiResult.decision.confidence
                          - response.confidence) < PerMille
             /\ aiResult.decision.confidence \in 0..100

ProviderHoldWithLevels ==
    /\ AIReturnedProviderDecision
    /\ aiResult.decision.action = "hold"
    /\ aiResult.decision.stop_loss > 0
    /\ aiResult.decision.confidence > 0

(***************************************************************************)
(* C7.  With fewer than 50 bars _make_trading_decision returns the hold    *)
(* 'Insufficient data' with zero levels and confidence 0, and it does so   *)
(* before reading any indicator: an absent column or a value that is not   *)
(* a number changes nothing.                                               *)
(***************************************************************************)
InsufficientDataHold ==
    (pc = "returned" /\ snapshot.bars < 50)
        => result =
             [exc |-> "none",
              decision |->
                [action |-> "hold", stop_loss |-> 0, take_profit |-> 0,
                 confidence |-> 0, reasoning |-> "Insufficient data"]]

TooFewBarsAndAbsentColumn ==
    /\ pc = "returned"
    /\ snapshot.bars < 50
    /\ snapshot.missing # {}
    /\ result.decision.action = "hold"

(***************************************************************************)
(* C8.  The first strategy that fires in the order trend-following,        *)
(* mean-reversion, breakout decides: when a trend-following and a          *)
(* mean-reversion condition hold together the result is the                *)
(* trend-following decision (its action, confidence 0.85); mean-reversion  *)
(* (0.75) decides only when trend-following is silent, breakout (0.8)      *)
(* only when both are.                                                     *)
(***************************************************************************)
FirstStrategyWins ==
    RuleEvaluated =>
        LET s == snapshot
            d == result.decision
            trend == TrendBuy(s) \/ TrendSell(s)
            meanRev == MeanReversionBuy(s) \/ MeanReversionSell(s)
        IN  /\ trend
                 => /\ d.confidence = 85
                    /\ d.action = (IF TrendBuy(s) THEN "buy" ELSE "sell")
            /\ (~trend /\ meanRev)
                 => /\ d.confidence = 75
                    /\ d.action =
                          (IF MeanReversionBuy(s) THEN "buy" ELSE "sell")
            /\ (~trend /\ ~meanRev /\ Breakout(s)) => d.confidence = 80
            /\ (~trend /\ ~meanRev /\ ~Breakout(s)) => d.action = "hold"

TrendAndMeanReversionTogether ==
    /\ RuleEvaluated
    /\ TrendBuy(snapshot)
    /\ MeanReversionSell(snapshot)
    /\ result.decision.action = "buy"

(***************************************************************************)
(* C9.  One call of analyze_market calls the provider at most max_retries  *)
(* = 3 times, returns the decision of the first attempt that passes        *)
(* parsing and validation without calling again, sleeps once after each    *)
(* failed attempt, and terminates.                                         *)
(***************************************************************************)
RetryDiscipline ==
    /\ apiCalls <= 3
    /\ attempt = sleeps
    /\ sleeps = (IF aiPc = "sleep" THEN failures - 1 ELSE failures)
    /\ aiPc = "done" =>
          \/ /\ response.kind = "json"
             /\ apiCalls = failures + 1
             /\ aiResult = TryAttempt(data, response)
             /\ aiResult.exc = "none"
          \/ /\ response.kind = "none"
             /\ apiCalls = 3
             /\ failures = 3

AnalyzeMarketBoundedRetry ==
    /\ []RetryDiscipline
    /\ (aiPc = "attempt") ~> (aiPc = "done")

SucceededOnLastAttempt ==
    /\ aiPc = "done"
    /\ apiCalls = 3
    /\ failures = 2
    /\ sleeps = 2
    /\ aiResult.decision.action = "sell"

(***************************************************************************)
(* C12, as the specification states it.  When neither trend-following nor  *)
(* mean-reversion fires and the ATR exceeds 1.5 times its own average      *)
(* (the mean of the frame's 'atr' column), the result is a buy or sell     *)
(* with confidence 0.8: buy when RSI > 50, sell otherwise.                 *)
(***************************************************************************)
BreakoutFiresAboveAverage ==
    (/\ RuleEvaluated
     /\ ~(TrendBuy(snapshot) \/ TrendSell(snapshot))
     /\ ~(MeanReversionBuy(snapshot) \/ MeanReversionSell(snapshot))
     /\ 2 * snapshot.atr > 3 * snapshot.atr_column_mean)
        => /\ result.decision.confidence = 80
           /\ result.decision.action =
                 (IF snapshot.rsi > 50 THEN "buy" ELSE "sell")

(***************************************************************************)
(* C13.  When trend-following or mean-reversion fires (50 bars or more)    *)
(* the levels are exactly close -/+ 1.5 * ATR: a buy has stop_loss =       *)
(* close - 1.5*ATR and take_profit = close + 1.5*ATR, a sell the reverse;  *)
(* trend-following carries confidence 0.85, mean-reversion 0.75.           *)
(***************************************************************************)
SingleSizingRule ==
    (/\ RuleEvaluated
     /\ \/ TrendBuy(snapshot) \/ TrendSell(snapshot)
        \/ MeanReversionBuy(snapshot) \/ MeanReversionSell(snapshot))
        => LET s == snapshot
               d == result.decision
           IN  /\ d.action \in {"buy", "sell"}
               /\ d.action = "buy"
                     => /\ 2 * (s.close - d.stop_loss) = 3 * s.atr
                        /\ 2 * (d.take_profit - s.close) = 3 * s.atr
               /\ d.action = "sell"
                     => /\ 2 * (d.stop_loss - s.close) = 3 * s.atr
                        /\ 2 * (s.close - d.take_profit) = 3 * s.atr
               /\ d.confidence =
                     (IF TrendBuy(s) \/ TrendSell(s) THEN 85 ELSE 75)

\* ema20 > ema50, adx > 25, rsi > 50 and a positive ATR: buy at 0.85
TrendBuySized ==
    /\ RuleEvaluated
    /\ snapshot.ema20 > snapshot.ema50
    /\ snapshot.adx > 25
    /\ snapshot.rsi > 50
    /\ snapshot.atr > 0
    /\ result.decision.action = "buy"
    /\ result.decision.confidence = 85
    /\ result.decision.stop_loss < snapshot.close

(***************************************************************************)
(* C14.  With 50 bars or more and none of the three strategies firing,     *)
(* the result is the hold 'No clear signal': confidence 0.5, stop_loss =   *)
(* take_profit = 0.                                                        *)
(***************************************************************************)
NoClearSignalHold ==
    (/\ RuleEvaluated
     /\ ~(TrendBuy(snapshot) \/ TrendSell(snapshot))
     /\ ~(MeanReversionBuy(snapshot) \/ MeanReversionSell(snapshot))
     /\ ~Breakout(snapshot))
        => result.decision =
             [action |-> "hold", stop_loss |-> 0, take_profit |-> 0,
              confidence |-> 50, reasoning |-> "No clear signal"]

NoStrategyFired ==
    /\ RuleEvaluated
    /\ snapshot.ema20 = snapshot.ema50
    /\ snapshot.rsi = 50
    /\ snapshot.atr > 0
    /\ result.decision.action = "hold"

(***************************************************************************)
(* C17.  For a non-negative ATR the breakout branch cannot fire, the       *)
(* last row's ATR being compared with 1.5 times itself: no decision has    *)
(* confidence 0.8, and a snapshot that triggers neither trend-following    *)
(* nor mean-reversion ends in hold, however far its ATR lies above the     *)
(* average of the column.                                                  *)
(***************************************************************************)
BreakoutNeverFires ==
    (RuleEvaluated /\ snapshot.atr >= 0)
        => /\ result.decision.confidence # 80
           /\ result.decision.reasoning # "High ATR breakout detected"
           /\ (/\ ~(TrendBuy(snapshot) \/ TrendSell(snapshot))
               /\ ~(MeanReversionBuy(snapshot) \/ MeanReversionSell(snapshot)))
                 => result.decision.action = "hold"

HighAtrWithoutSignalHolds ==
    /\ RuleEvaluated
    /\ ~(TrendBuy(snapshot) \/ TrendSell(snapshot))
    /\ ~(MeanReversionBuy(snapshot) \/ MeanReversionSell(snapshot))
    /\ 2 * snapshot.atr > 3 * snapshot.atr_column_mean
    /\ result.decision.action = "hold"

(***************************************************************************)
(* C16.  The engine keeps no mutable state between or during calls: no     *)
(* step of _make_trading_decision or analyze_market changes the fields of  *)
(* the engine object (max_retries 3, retry_delay 2, min_rr_ratio 1.5,      *)
(* model) or the input it was given, so a call finds the object exactly    *)
(* as a call running alone finds it.                                       *)
(***************************************************************************)
EngineFieldsAsConstructed ==
    trader =
        [model |-> "gpt-3.5-turbo", max_retries |-> 3, retry_delay |-> 2,
         min_rr_ratio |-> [num |-> 3, den |-> 2]]

EngineCallLeavesObjectAndInput ==
    call \in {"make_trading_decision", "analyze_market"}
        => (trader' = trader /\ snapshot' = snapshot /\ data' = data)

Invoked(op) == \E i \in 1..Len(invoked) : invoked[i] = op

CountInvoked(op) == Cardinality({i \in 1..Len(invoked) : invoked[i] = op})

InCycle == call = "process_trading_cycle"

(***************************************************************************)
(* C11.  A position-modification request sent to the broker has passed     *)
(* the validation of a fresh entry: it belongs to a buy or sell decision   *)
(* and carries positive stop_loss and take_profit ordered around the       *)
(* close; no modification is sent for a hold with zero levels.             *)
(***************************************************************************)
ModificationsAreValidated ==
    \A i \in 1..Len(requests) :
        requests[i].action = "TRADE_ACTION_MODIFY"
            => /\ Directional(result.decision)
               /\ requests[i].sl > 0
               /\ requests[i].tp > 0
               /\ OrderedAround(snapshot.close,
                                [action |-> result.decision.action,
                                 stop_loss |-> requests[i].sl,
                                 take_profit |-> requests[i].tp])

(***************************************************************************)
(* C15.  execute_order never raises and returns a status among executed,   *)
(* hold, error.  A hold gives status hold and no request.  Status          *)
(* executed is given only when the broker answered DONE.  A validation     *)
(* failure (stop_loss <= 0, take_profit <= 0, unknown symbol, missing      *)
(* tick) gives status error with no order sent; a broker rejection gives   *)
(* status error.                                                           *)
(***************************************************************************)
ExecuteOrderContract ==
    (InCycle /\ Invoked("execute_order"))
        => LET d == result.decision
               invalid ==
                   \/ d.stop_loss <= 0
                   \/ d.take_profit <= 0
                   \/ ~broker.symbol_info
                   \/ ~broker.tick
           IN  /\ orderResult.raised = "none"
               /\ orderResult.status \in {"executed", "hold", "error"}
               /\ d.action = "hold"
                     => orderResult.status = "hold" /\ requests = <<>>
               /\ orderResult.status = "hold" => d.action = "hold"
               /\ orderResult.status = "executed"
                     => /\ broker.retcode = "DONE"
                        /\ Len(requests) = 1
                        /\ requests[1].action = "TRADE_ACTION_DEAL"
               /\ (d.action # "hold" /\ invalid)
                     => orderResult.status = "error" /\ requests = <<>>
               /\ (d.action # "hold" /\ ~invalid /\ broker.retcode # "DONE")
                     => orderResult.status = "error" /\ Len(requests) = 1
               /\ (d.action # "hold" /\ ~invalid /\ broker.retcode = "DONE")
                     => orderResult.status = "executed"

\* a sell whose take_profit is not positive, on a terminal that would
\* have accepted the order
NonPositiveLevelRefused ==
    /\ InCycle
    /\ Invoked("execute_order")
    /\ result.decision.action = "sell"
    /\ result.decision.take_profit <= 0
    /\ broker.symbol_info
    /\ broker.tick
    /\ broker.retcode = "DONE"
    /\ orderResult.status = "error"
    /\ requests = <<>>

(***************************************************************************)
(* C18.  For one symbol of a cycle at most one kind of broker request is   *)
(* issued.  When get_open_trade reports a position only adjust_trade is    *)
(* invoked, never execute_order or log_trade; execute_order, followed by   *)
(* exactly one log_trade, happens only when data was fetched and no        *)
(* position is open.                                                       *)
(***************************************************************************)
OneKindOfRequestPerSymbol ==
    InCycle =>
        /\ \A i, j \in 1..Len(requests) : requests[i].action = requests[j].action
        /\ Invoked("adjust_trade")
              => /\ existingTrade # 0
                 /\ ~Invoked("execute_order")
                 /\ ~Invoked("log_trade")
        /\ existingTrade # 0
              => /\ ~Invoked("execute_order")
                 /\ ~Invoked("log_trade")
                 /\ \A i \in 1..Len(requests) :
                       requests[i].action = "TRADE_ACTION_MODIFY"
        /\ Invoked("execute_order")
              => /\ existingTrade = 0
                 /\ fetched = "frame"
                 /\ result.exc = "none"
                 /\ CountInvoked("execute_order") = 1
                 /\ \A i \in 1..Len(requests) :
                       requests[i].action = "TRADE_ACTION_DEAL"
        /\ Invoked("log_trade") => invoked = <<"execute_order", "log_trade">>
        /\ cyPc = "loop"
              => invoked \in {<<>>, <<"adjust_trade">>,
                              <<"execute_order", "log_trade">>}
        /\ (cyPc = "loop" /\ existingTrade # 0) => invoked = <<"adjust_trade">>

OpenPositionOnlyAdjusted ==
    /\ InCycle
    /\ cyPc = "loop"
    /\ existingTrade # 0
    /\ invoked = <<"adjust_trade">>
    /\ Len(requests) = 1

(***************************************************************************)
(* C19.  A cycle visits every symbol of Settings.SYMBOLS exactly once, in  *)
(* list order; a fetch that returns None or an exception raised while a    *)
(* symbol is processed ends that symbol only: the cycle does not end       *)
(* before the last symbol has been visited.                                *)
(***************************************************************************)
EverySymbolVisitedInOrder ==
    InCycle =>
        /\ Len(visited) <= 4
        /\ visited =
              SubSeq(<<"USDCAD", "EURUSD", "XAUUSD", "USDJPY">>, 1,
                     Len(visited))
        /\ Len(visited) = (IF cyPc = "fetch" THEN symIdx - 1 ELSE symIdx)
        /\ cyPc = "done"
              => visited = <<"USDCAD", "EURUSD", "XAUUSD", "USDJPY">>

CycleCompletedDespiteFaults ==
    /\ InCycle
    /\ cyPc = "done"
    /\ faults >= 2
    /\ visited = <<"USDCAD", "EURUSD", "XAUUSD", "USDJPY">>

====
